---- MODULE Spec2Model ----
(***************************************************************************)
(* The legal-research query service: the HTTP route adapter (POST          *)
(* /api/query) in front of the retrieval-and-synthesis core.               *)
(*                                                                         *)
(* Text is modelled as a sequence of one-character strings, so that        *)
(* trimming, lowercasing and tokenising are computed and not assumed.      *)
(***************************************************************************)
EXTENDS Integers, Sequences, FiniteSets, TLC

(***************************************************************************)
(* Bounds of the model.                                                    *)
(***************************************************************************)
\* longest question text a request carries
MaxLen == 3
\* most questions the chat page sends in a session
MaxSubmits == 2
\* latest instant the wall clock reaches
MaxClock == 1
\* largest limit retrieveLegalKnowledge is exercised with
MaxLimit == 7

\* concurrently served requests (two are enough for any pairwise interference)
Handlers == {"h1", "h2"}

\* characters a question is made of
QChars == {" ", "b"}

(***************************************************************************)
(* State.                                                                  *)
(***************************************************************************)
VARIABLES
  kb,      \* the knowledge base the core reads: the entries and their token index
  now,     \* the wall clock
  pc,      \* per handler: "idle", "awaitJson" (suspended in request.json()), "done"
  req,     \* per handler: the body of the request it serves
  res,     \* per handler: the outcome of the request
  calls,   \* per handler: the core functions this request invoked, in order
  input,       \* the chat page: the text of the question box
  messages,    \* the chat page: the message log
  isLoading,   \* the chat page: a question is being researched
  error,       \* the chat page: the error shown above the question box, or Null
  submits,     \* the chat page: the handleSubmit calls suspended in an await, oldest first
  event        \* the chat page: what happened last (an event handled, an await settled)

pageVars == <<input, messages, isLoading, error, submits, event>>

vars == <<kb, now, pc, req, res, calls, pageVars>>

(***************************************************************************)
(* Text helpers.                                                           *)
(***************************************************************************)
IsSpace(c) == c = " "

IsPunct(c) == c \in {".", ",", ";"}

Lower(c) ==
  CASE c = "A" -> "a"
    [] c = "B" -> "b"
    [] OTHER -> c

LowerText(s) == [i \in 1..Len(s) |-> Lower(s[i])]

RECURSIVE TrimStart(_)
TrimStart(s) ==
  IF s # <<>> /\ IsSpace(Head(s)) THEN TrimStart(Tail(s)) ELSE s

RECURSIVE TrimEnd(_)
TrimEnd(s) ==
  IF s # <<>> /\ IsSpace(s[Len(s)]) THEN TrimEnd(SubSeq(s, 1, Len(s) - 1)) ELSE s

\* a plausible slip: only the leading whitespace is removed
TrimLeadingOnly(s) == TrimStart(s)

\* String.prototype.trim
Trim(s) == TrimEnd(TrimStart(s))

\* all strings over QChars of length at most n
RECURSIVE StringsUpTo(_)
StringsUpTo(n) ==
  IF n = 0 THEN {<<>>}
  ELSE LET shorter == StringsUpTo(n - 1)
       IN shorter \cup {Append(s, c) : s \in shorter, c \in QChars}

(***************************************************************************)
(* The knowledge base: the curated entries, loaded once at process start.  *)
(***************************************************************************)
KnowledgeBase ==
  <<
  [id |-> "e1", title |-> <<"B">>, type |-> "definition", region |-> "us", era |-> "modern",
   summary |-> <<"B", " ", "a", "b", ".">>,
   excerpt |-> <<"A", "b", " ", "b", ".", " ", "B", "a", ".">>,
   keywords |-> <<<<"b">>>>,
   citations |-> <<"Black 11th, B">>,
   sources |-> <<[label |-> "src-e1", url |-> "https://example.org/e1"]>>],
  [id |-> "e2", title |-> <<"A", "b">>, type |-> "definition", region |-> "uk", era |-> "old",
   summary |-> <<"a", "b", " ", "b">>,
   excerpt |-> <<"B", " ", "a", "b", ".", " ", "A", "a", ".">>,
   keywords |-> <<<<"a", "b">>>>,
   citations |-> <<"Black 11th, Ab">>,
   sources |-> <<[label |-> "src-e2", url |-> "https://example.org/e2"]>>],
  [id |-> "e3", title |-> <<"B", "a">>, type |-> "doctrine", region |-> "us", era |-> "old",
   summary |-> <<"b", " ", "b", "a">>,
   excerpt |-> <<"B", "a", ".", " ", "A", "b", " ", "b", "a", ".">>,
   keywords |-> <<<<"b", "a">>>>,
   citations |-> <<>>,
   sources |-> <<[label |-> "src-e3", url |-> "https://example.org/e3"]>>],
  [id |-> "e4", title |-> <<"A", "a", " ", "b">>, type |-> "statute", region |-> "us", era |-> "modern",
   summary |-> <<"a", "a">>,
   excerpt |-> <<"A", "a", ".", " ", "A", " ", "b", ".">>,
   keywords |-> <<<<"a", "a">>>>,
   citations |-> <<"Stat. Aa 1">>,
   sources |-> <<[label |-> "src-e4", url |-> "https://example.org/e4"]>>],
  [id |-> "e5", title |-> <<"B", "b">>, type |-> "statute", region |-> "uk", era |-> "modern",
   summary |-> <<"b", " ", "b", "b">>,
   excerpt |-> <<"B", "b", " ", "b", ".">>,
   keywords |-> <<<<"b", "b">>>>,
   citations |-> <<"Stat. Bb 2", "Stat. Bb 3">>,
   sources |-> <<[label |-> "src-e5", url |-> "https://example.org/e5"]>>],
  [id |-> "e6", title |-> <<"B", "a", " ", "b">>, type |-> "statute", region |-> "us", era |-> "old",
   summary |-> <<"b", "a">>,
   excerpt |-> <<"A", " ", "b", "a", ".">>,
   keywords |-> <<>>,
   citations |-> <<>>,
   sources |-> <<[label |-> "src-e6", url |-> "https://example.org/e6"]>>],
  [id |-> "e7", title |-> <<"A", "b", " ", "a">>, type |-> "doctrine", region |-> "uk", era |-> "modern",
   summary |-> <<"a", "b">>,
   excerpt |-> <<"A", " ", "a", "b", ",", " ", "b", ".">>,
   keywords |-> <<<<"a", "b">>>>,
   citations |-> <<"Black 11th, Ab a">>,
   sources |-> <<[label |-> "src-e7", url |-> "https://example.org/e7"]>>]
  >>

(***************************************************************************)
(* Normalizer.                                                             *)
(***************************************************************************)
StopWords == {<<"a">>}

\* drop punctuation characters
RECURSIVE StripPunct(_)
StripPunct(s) ==
  IF s = <<>> THEN <<>>
  ELSE IF IsPunct(Head(s)) THEN StripPunct(Tail(s))
  ELSE <<Head(s)>> \o StripPunct(Tail(s))

\* split on whitespace; cur is the word being read
RECURSIVE SplitWords(_, _)
SplitWords(s, cur) ==
  IF s = <<>> THEN (IF cur = <<>> THEN <<>> ELSE <<cur>>)
  ELSE IF IsSpace(Head(s))
       THEN (IF cur = <<>> THEN <<>> ELSE <<cur>>) \o SplitWords(Tail(s), <<>>)
       ELSE SplitWords(Tail(s), Append(cur, Head(s)))

normalize(text) ==
  SelectSeq(SplitWords(StripPunct(LowerText(text)), <<>>),
            LAMBDA w : w \notin StopWords)

RECURSIVE FlattenTokens(_)
FlattenTokens(texts) ==
  IF texts = <<>> THEN <<>>
  ELSE normalize(Head(texts)) \o FlattenTokens(Tail(texts))

(***************************************************************************)
(* Scoring engine.                                                         *)
(***************************************************************************)
TitleWeight == 4
KeywordWeight == 3
SummaryWeight == 2
ExcerptWeight == 1
PhraseBonus == 5

RECURSIVE Count(_, _)
Count(tok, toks) ==
  IF toks = <<>> THEN 0
  ELSE (IF Head(toks) = tok THEN 1 ELSE 0) + Count(tok, Tail(toks))

\* occurrences in fieldTokens of every query token
RECURSIVE Overlap(_, _)
Overlap(queryTokens, fieldTokens) ==
  IF queryTokens = <<>> THEN 0
  ELSE Count(Head(queryTokens), fieldTokens) + Overlap(Tail(queryTokens), fieldTokens)

\* the query tokens occur contiguously in fieldTokens
ContainsPhrase(queryTokens, fieldTokens) ==
  /\ queryTokens # <<>>
  /\ \E i \in 1..Len(fieldTokens) :
       /\ i + Len(queryTokens) - 1 <= Len(fieldTokens)
       /\ SubSeq(fieldTokens, i, i + Len(queryTokens) - 1) = queryTokens

(***************************************************************************)
(* Highlight extractor.                                                    *)
(***************************************************************************)
MaxHighlights == 3
MaxSpanLen == 6

\* split the excerpt into sentence spans at full stops; cur is the span being read
RECURSIVE SplitSpans(_, _)
SplitSpans(s, cur) ==
  IF s = <<>> THEN (IF Trim(cur) = <<>> THEN <<>> ELSE <<Trim(cur)>>)
  ELSE IF Head(s) = "."
       THEN (IF Trim(cur) = <<>> THEN <<>> ELSE <<Trim(cur)>>) \o SplitSpans(Tail(s), <<>>)
       ELSE SplitSpans(Tail(s), Append(cur, Head(s)))

Take(seq, n) == SubSeq(seq, 1, IF Len(seq) < n THEN Len(seq) ELSE n)

\* the spans of an excerpt, each with its tokens
IndexSpans(excerpt) ==
  LET spans == SplitSpans(excerpt, <<>>)
  IN [i \in 1..Len(spans) |-> [text |-> spans[i], tokens |-> normalize(spans[i])]]

extractHighlights(queryTokens, item) ==
  LET hits == SelectSeq(item.index.spans,
                LAMBDA sp : \E i \in 1..Len(queryTokens) : Count(queryTokens[i], sp.tokens) > 0)
  IN IF hits = <<>> THEN <<item.entry.summary>>
     ELSE [i \in 1..Len(Take(hits, MaxHighlights)) |-> Take(hits[i].text, MaxSpanLen)]

(***************************************************************************)
(* The knowledge base as loaded, and the score of an entry.                 *)
(***************************************************************************)
\* the tokens of every indexable field of an entry, and the spans of its excerpt
IndexEntry(entry) ==
  [title |-> normalize(entry.title),
   keywords |-> FlattenTokens(entry.keywords),
   summary |-> normalize(entry.summary),
   excerpt |-> normalize(entry.excerpt),
   spans |-> IndexSpans(entry.excerpt)]

\* the registry built once at process start: every entry with its token index
LoadKnowledgeBase ==
  [i \in 1..Len(KnowledgeBase) |->
     [entry |-> KnowledgeBase[i], index |-> IndexEntry(KnowledgeBase[i])]]

score(queryTokens, item) ==
  LET fields == item.index
      overlap == TitleWeight * Overlap(queryTokens, fields.title)
                 + KeywordWeight * Overlap(queryTokens, fields.keywords)
                 + SummaryWeight * Overlap(queryTokens, fields.summary)
                 + ExcerptWeight * Overlap(queryTokens, fields.excerpt)
      phrase == \E f \in {fields.title, fields.keywords, fields.summary, fields.excerpt} :
                  ContainsPhrase(queryTokens, f)
  IN IF overlap = 0 THEN 0
     ELSE overlap + (IF phrase THEN PhraseBonus ELSE 0)

(***************************************************************************)
(* Result ranker.                                                          *)
(***************************************************************************)
\* insert r before the first element that scores no more than r
RECURSIVE InsertByScore(_, _)
InsertByScore(r, sorted) ==
  IF sorted = <<>> THEN <<r>>
  ELSE IF Head(sorted).score <= r.score THEN <<r>> \o sorted
  ELSE <<Head(sorted)>> \o InsertByScore(r, Tail(sorted))

\* stable sort by descending score: equal scores keep their knowledge-base order
RECURSIVE SortByScore(_)
SortByScore(seq) ==
  IF seq = <<>> THEN <<>>
  ELSE InsertByScore(Head(seq), SortByScore(Tail(seq)))

rank(scored, limit) ==
  Take(SortByScore(SelectSeq(scored, LAMBDA r : r.score > 0)), limit)

Result(item, queryTokens) ==
  LET entry == item.entry
  IN
  [id |-> entry.id, title |-> entry.title, type |-> entry.type, region |-> entry.region,
   era |-> entry.era, summary |-> entry.summary, excerpt |-> entry.excerpt,
   keywords |-> entry.keywords, citations |-> entry.citations, sources |-> entry.sources,
   score |-> score(queryTokens, item),
   highlights |-> extractHighlights(queryTokens, item)]

retrieveLegalKnowledge(question, limit) ==
  LET queryTokens == normalize(question)
  IN rank([i \in 1..Len(kb) |-> Result(kb[i], queryTokens)], limit)

(***************************************************************************)
(* Answer composer and follow-up generator.                                *)
(***************************************************************************)
FallbackAnswer == [kind |-> "fallback", text |-> "No direct match was found; please refine the query."]

MaxSynthesis == 3
MaxFollowUps == 3

RECURSIVE CitationList(_)
CitationList(results) ==
  IF results = <<>> THEN <<>>
  ELSE Head(results).citations \o CitationList(Tail(results))

composeAnswer(question, results) ==
  IF results = <<>> THEN FallbackAnswer
  ELSE LET used == Take(results, MaxSynthesis)
       IN [kind |-> "synthesis",
           subject |-> <<results[1].title, results[1].type>>,
           synthesis |-> [i \in 1..Len(used) |-> used[i].summary],
           citations |-> CitationList(used)]

generateFollowUps(question, results, allEntries) ==
  IF results = <<>> THEN <<>>
  ELSE LET top == results[1]
           shown == {results[i].id : i \in 1..Len(results)}
           adjacent == SelectSeq(allEntries,
                         LAMBDA e : /\ e.id \notin shown
                                    /\ \/ e.type = top.type
                                       \/ e.region = top.region
                                       \/ e.era = top.era
                                    /\ LowerText(e.title) # LowerText(question))
       IN [i \in 1..Len(Take(adjacent, MaxFollowUps)) |-> adjacent[i].title]

buildAnswer(question, results) ==
  [answer |-> composeAnswer(question, results),
   followUps |-> generateFollowUps(question, results, [i \in 1..Len(kb) |-> kb[i].entry])]

(***************************************************************************)
(* Request bodies.  A body either fails to parse as JSON or parses to a    *)
(* JSON value; an object body carries a question member of any JSON type   *)
(* or none.                                                                *)
(***************************************************************************)
NoQuestion == [type |-> "absent", text |-> <<>>]

QuestionValues ==
  {[type |-> t, text |-> <<>>] : t \in {"absent", "null", "number", "boolean", "object", "array"}}
    \cup {[type |-> "string", text |-> s] : s \in StringsUpTo(MaxLen)}

Bodies ==
  {[json |-> j, question |-> NoQuestion] :
      j \in {"unparseable", "null", "number", "boolean", "string", "array"}}
    \cup {[json |-> "object", question |-> q] : q \in QuestionValues}

NoRequest == [json |-> "none", question |-> NoQuestion]

NoResponse == [status |-> 0]

(***************************************************************************)
(* The route handler.                                                      *)
(***************************************************************************)
\* request.json() rejects
JsonRejects(body) == body.json = "unparseable"

\* payload.question raises a TypeError: the payload is null
QuestionReadThrows(payload) == payload.json = "null"

\* the value of payload.question; a member that is absent reads as undefined
QuestionOf(payload) ==
  IF payload.json = "object" /\ payload.question.type # "absent"
  THEN payload.question
  ELSE [type |-> "undefined", text |-> <<>>]

\* value?.trim() raises a TypeError: the value is neither nullish nor a string
TrimThrows(value) == value.type \notin {"undefined", "null", "string"}

\* value?.trim()
OptionalTrim(value) ==
  IF value.type = "string"
  THEN [type |-> "string", text |-> Trim(value.text)]
  ELSE [type |-> "undefined", text |-> <<>>]

\* !question
IsFalsy(question) == question.type = "undefined" \/ question.text = <<>>

\* a plausible slip: one result too many is requested
QueryLimitOffByOne == 5 + 1

\* retrieveLegalKnowledge(question, 5)
QueryLimit == 5

\* a plausible slip: only the first mapped result reaches the response
MapResultsFirstOnly(results) ==
  [i \in 1..Len(results) |->
     LET result == results[1]
     IN [id |-> result.id, title |-> result.title, summary |-> result.summary,
         excerpt |-> result.excerpt, citations |-> result.citations,
         sources |-> result.sources, score |-> result.score,
         highlights |-> result.highlights, region |-> result.region,
         era |-> result.era, type |-> result.type]]

\* a plausible slip: the mapped list is reversed
MapResultsReversed(results) ==
  [i \in 1..Len(results) |->
     LET result == results[Len(results) + 1 - i]
     IN [id |-> result.id, title |-> result.title, summary |-> result.summary,
         excerpt |-> result.excerpt, citations |-> result.citations,
         sources |-> result.sources, score |-> result.score,
         highlights |-> result.highlights, region |-> result.region,
         era |-> result.era, type |-> result.type]]

\* results.map((result) => ({...}))
MapResults(results) ==
  [i \in 1..Len(results) |->
     LET result == results[i]
     IN [id |-> result.id, title |-> result.title, summary |-> result.summary,
         excerpt |-> result.excerpt, citations |-> result.citations,
         sources |-> result.sources, score |-> result.score,
         highlights |-> result.highlights, region |-> result.region,
         era |-> result.era, type |-> result.type]]

BadRequest(message) == [status |-> 400, body |-> [error |-> message]]

\* an exception nothing catches leaves the handler
Uncaught(name) == [status |-> 500, body |-> [uncaught |-> name]]

\* a plausible slip: a query that matches nothing is reported as a bad request
SuccessUnlessEmpty(question, t) ==
  LET results == retrieveLegalKnowledge(question, QueryLimit)
      built == buildAnswer(question, results)
  IN IF results = <<>>
     THEN [res |-> BadRequest("No results"),
           calls |-> <<[fn |-> "retrieveLegalKnowledge", question |-> question, limit |-> QueryLimit],
                       [fn |-> "buildAnswer", question |-> question]>>]
     ELSE [res |-> [status |-> 200,
                    body |-> [answer |-> built.answer, results |-> MapResults(results),
                              followUps |-> built.followUps, timestamp |-> t]],
           calls |-> <<[fn |-> "retrieveLegalKnowledge", question |-> question, limit |-> QueryLimit],
                       [fn |-> "buildAnswer", question |-> question]>>]

\* a plausible slip: the generation time is written into the follow-ups as well
SuccessStamped(question, t) ==
  LET results == retrieveLegalKnowledge(question, QueryLimit)
      built == buildAnswer(question, results)
  IN [res |-> [status |-> 200,
               body |-> [answer |-> built.answer, results |-> MapResults(results),
                         followUps |-> Append(built.followUps, <<t>>), timestamp |-> t]],
      calls |-> <<[fn |-> "retrieveLegalKnowledge", question |-> question, limit |-> QueryLimit],
                  [fn |-> "buildAnswer", question |-> question]>>]

\* the validated path of POST, at instant t: the core calls and the 200 response
Success(question, t) ==
  LET results == retrieveLegalKnowledge(question, QueryLimit)
      built == buildAnswer(question, results)
  IN [res |-> [status |-> 200,
               body |-> [answer |-> built.answer, results |-> MapResults(results),
                         followUps |-> built.followUps, timestamp |-> t]],
      calls |-> <<[fn |-> "retrieveLegalKnowledge", question |-> question, limit |-> QueryLimit],
                  [fn |-> "buildAnswer", question |-> question]>>]

\* the outcome of POST for a body, at instant t: the response and the core calls made
POST(body, t) ==
  IF JsonRejects(body)
  THEN [res |-> BadRequest("Invalid JSON payload"), calls |-> <<>>]
  ELSE IF QuestionReadThrows(body) \/ TrimThrows(QuestionOf(body))
  THEN [res |-> Uncaught("TypeError"), calls |-> <<>>]
  ELSE LET question == OptionalTrim(QuestionOf(body))
       IN IF IsFalsy(question)
          THEN [res |-> BadRequest("Question is required"), calls |-> <<>>]
          ELSE Success(question.text, t)

(***************************************************************************)
(* The chat page: the values its state starts from.                        *)
(***************************************************************************)
\* null
Null == [null |-> TRUE]

\* createMessage(role, content, extras); the id and the timestamp of a message are
\* read only as a React key and by formatTime, and are left out
createMessage(role, content, extras) ==
  IF extras = Null
  THEN [role |-> role, content |-> content]
  ELSE [role |-> role, content |-> content,
        sources |-> extras.sources, followUps |-> extras.followUps]

WelcomeMessage ==
  createMessage("assistant",
                [kind |-> "welcome",
                 text |-> "Welcome. I synthesize Black's Law Dictionary entries and lesser-known statutory artifacts to help with historical and doctrinal research. Ask about an obscure regulation, a classic doctrine, or a definition you want unpacked."],
                Null)

(***************************************************************************)
(* Actions of the route handler.                                           *)
(***************************************************************************)
Init ==
  /\ kb = LoadKnowledgeBase
  /\ now = 0
  /\ pc = [h \in Handlers |-> "idle"]
  /\ req = [h \in Handlers |-> NoRequest]
  /\ res = [h \in Handlers |-> NoResponse]
  /\ calls = [h \in Handlers |-> <<>>]
  /\ input = <<>>
  /\ messages = <<WelcomeMessage>>
  /\ isLoading = FALSE
  /\ error = Null
  /\ submits = <<>>
  /\ event = "load"

\* a request arrives: POST runs up to its await of request.json()
Post(h, body) ==
  /\ pc[h] = "idle"
  /\ pc' = [pc EXCEPT ![h] = "awaitJson"]
  /\ req' = [req EXCEPT ![h] = body]
  /\ UNCHANGED <<kb, now, res, calls, pageVars>>

\* a plausible slip: the payload is kept in a variable the handlers share, so a
\* resumed handler may work on the body of another request that is still suspended
PostResumeSharedPayload(h) ==
  /\ pc[h] = "awaitJson"
  /\ \E g \in Handlers :
       /\ pc[g] = "awaitJson"
       /\ LET out == POST(req[g], now)
          IN /\ res' = [res EXCEPT ![h] = out.res]
             /\ calls' = [calls EXCEPT ![h] = out.calls]
  /\ pc' = [pc EXCEPT ![h] = "done"]
  /\ UNCHANGED <<kb, now, req, pageVars>>

\* request.json() settles: POST runs to its end
PostResume(h) ==
  /\ pc[h] = "awaitJson"
  /\ LET out == POST(req[h], now)
     IN /\ res' = [res EXCEPT ![h] = out.res]
        /\ calls' = [calls EXCEPT ![h] = out.calls]
  /\ pc' = [pc EXCEPT ![h] = "done"]
  /\ UNCHANGED <<kb, now, req, pageVars>>

\* the response has been sent and the request's objects are discarded
Close(h) ==
  /\ pc[h] = "done"
  /\ pc' = [pc EXCEPT ![h] = "idle"]
  /\ req' = [req EXCEPT ![h] = NoRequest]
  /\ res' = [res EXCEPT ![h] = NoResponse]
  /\ calls' = [calls EXCEPT ![h] = <<>>]
  /\ UNCHANGED <<kb, now, pageVars>>

\* time passes
Tick ==
  /\ now < MaxClock
  /\ now' = now + 1
  /\ UNCHANGED <<kb, pc, req, res, calls, pageVars>>

Next ==
  \/ \E h \in Handlers, body \in Bodies : Post(h, body)
  \/ \E h \in Handlers : PostResume(h)
  \/ \E h \in Handlers : Close(h)
  \/ Tick

Spec == Init /\ [][Next]_vars

(***************************************************************************)
(* The chat page.                                                          *)
(***************************************************************************)
serverVars == <<kb, now, pc, req, res, calls>>

EXAMPLE_QUERIES ==
  <<
    <<"E", "x", "p", "l", "a", "i", "n", " ", "c", "h", "a", "m", "p", "e", "r", "t",
     "y", " ", "a", "n", "d", " ", "w", "h", "e", "t", "h", "e", "r", " ", "i", "t",
     "'", "s", " ", "s", "t", "i", "l", "l", " ", "e", "n", "f", "o", "r", "c", "e",
     "a", "b", "l", "e", ".">>,
    <<"W", "h", "a", "t", " ", "d", "o", "e", "s", " ", "B", "l", "a", "c", "k", "'",
     "s", " ", "L", "a", "w", " ", "D", "i", "c", "t", "i", "o", "n", "a", "r", "y",
     " ", "s", "a", "y", " ", "a", "b", "o", "u", "t", " ", "c", "o", "n", "s", "i",
     "d", "e", "r", "a", "t", "i", "o", "n", "?">>,
    <<"L", "i", "s", "t", " ", "o", "b", "s", "c", "u", "r", "e", " ", "b", "l", "u",
     "e", " ", "l", "a", "w", "s", " ", "t", "h", "a", "t", " ", "r", "e", "m", "a",
     "i", "n", " ", "a", "c", "t", "i", "v", "e", " ", "t", "o", "d", "a", "y", ".">>,
    <<"H", "o", "w", " ", "i", "s", " ", "q", "u", "o", " ", "w", "a", "r", "r", "a",
     "n", "t", "o", " ", "u", "s", "e", "d", " ", "a", "g", "a", "i", "n", "s", "t",
     " ", "p", "u", "b", "l", "i", "c", " ", "o", "f", "f", "i", "c", "i", "a", "l",
     "s", "?">>
  >>

\* the texts typed into the question box: empty, blank, bare, padded on both sides
TypedTexts ==
  {<<>>, <<" ", " ">>, <<"b">>, <<" ", "b", " ">>, <<"b", "b">>}

\* the follow-up buttons the log shows
FollowUpsShown ==
  UNION {{messages[k].followUps[j] : j \in 1..Len(messages[k].followUps)} :
           k \in {k \in 1..Len(messages) : "followUps" \in DOMAIN messages[k]}}

\* the texts of the quick prompts and of the follow-up buttons
Suggestions == {EXAMPLE_QUERIES[k] : k \in 1..Len(EXAMPLE_QUERIES)} \cup FollowUpsShown

\* fetch("/api/query", {method: "POST", body: JSON.stringify({question})}), as the
\* route handler reads it
QueryRequest(question) ==
  [method |-> "POST", url |-> "/api/query",
   body |-> [json |-> "object", question |-> [type |-> "string", text |-> question]]]

\* the values the awaits of handleSubmit reject with, and the one it throws itself
NetworkError == [isError |-> TRUE, message |-> "Failed to fetch"]
BodyError == [isError |-> TRUE, message |-> "Unexpected end of JSON input"]
NotOkError == [isError |-> TRUE, message |-> "The assistant could not process that request."]

\* a response that comes from in front of the route handler
GatewayError == [status |-> 502, body |-> [gateway |-> "Bad Gateway"]]

\* response.ok
IsOk(response) == response.status >= 200 /\ response.status <= 299

\* err instanceof Error ? err.message : "Unexpected error occurred."
ErrorMessage(err) ==
  IF err.isError THEN [message |-> err.message]
  ELSE [message |-> "Unexpected error occurred."]

\* the questions sent so far
UserMessages == {k \in 1..Len(messages) : messages[k].role = "user"}

Without(seq, i) == SubSeq(seq, 1, i - 1) \o SubSeq(seq, i + 1, Len(seq))

\* onChange of the question box, which is disabled while a question is researched
TypeInput(text) ==
  /\ ~isLoading
  /\ input' = text
  /\ event' = "type"
  /\ UNCHANGED <<messages, isLoading, error, submits, serverVars>>

\* a plausible slip: choosing a suggestion also dismisses the error
handleSuggestionClickClearsError(suggestion) ==
  /\ input' = suggestion
  /\ error' = Null
  /\ event' = "click"
  /\ UNCHANGED <<messages, isLoading, submits, serverVars>>

\* a click on a quick prompt or on a follow-up button
handleSuggestionClick(suggestion) ==
  /\ input' = suggestion
  /\ event' = "click"
  /\ UNCHANGED <<messages, isLoading, error, submits, serverVars>>

\* a plausible slip: the guard and the request use the input as typed
handleSubmitUntrimmed ==
  /\ Cardinality(UserMessages) < MaxSubmits
  /\ event' = "submit"
  /\ IF input = <<>> \/ isLoading
     THEN UNCHANGED <<messages, isLoading, error, submits>>
     ELSE /\ messages' = Append(messages, createMessage("user", Trim(input), Null))
          /\ isLoading' = TRUE
          /\ error' = Null
          /\ submits' = Append(submits, [stage |-> "fetch", request |-> QueryRequest(input),
                                         response |-> NoResponse])
  /\ UNCHANGED <<input, serverVars>>

\* a plausible slip: the guard does not look at isLoading
handleSubmitWhileLoading ==
  /\ Cardinality(UserMessages) < MaxSubmits
  /\ event' = "submit"
  /\ IF Trim(input) = <<>>
     THEN UNCHANGED <<messages, isLoading, error, submits>>
     ELSE /\ messages' = Append(messages, createMessage("user", Trim(input), Null))
          /\ isLoading' = TRUE
          /\ error' = Null
          /\ submits' = Append(submits, [stage |-> "fetch", request |-> QueryRequest(Trim(input)),
                                         response |-> NoResponse])
  /\ UNCHANGED <<input, serverVars>>

\* a submit event of the form: handleSubmit up to its await of fetch
handleSubmit ==
  /\ Cardinality(UserMessages) < MaxSubmits
  /\ event' = "submit"
  /\ IF Trim(input) = <<>> \/ isLoading
     THEN UNCHANGED <<messages, isLoading, error, submits>>
     ELSE /\ messages' = Append(messages, createMessage("user", Trim(input), Null))
          /\ isLoading' = TRUE
          /\ error' = Null
          /\ submits' = Append(submits, [stage |-> "fetch", request |-> QueryRequest(Trim(input)),
                                         response |-> NoResponse])
  /\ UNCHANGED <<input, serverVars>>

\* a plausible slip: the loading flag is cleared at the end of the try block only
FailedKeepsLoading(i, err) ==
  /\ error' = ErrorMessage(err)
  /\ input' = <<>>
  /\ submits' = Without(submits, i)
  /\ UNCHANGED <<messages, isLoading>>

\* a plausible slip: a failure is swallowed
FailedSilently(i, err) ==
  /\ isLoading' = FALSE
  /\ input' = <<>>
  /\ submits' = Without(submits, i)
  /\ UNCHANGED <<messages, error>>

\* the catch and finally blocks of handleSubmit number i
Failed(i, err) ==
  /\ error' = ErrorMessage(err)
  /\ isLoading' = FALSE
  /\ input' = <<>>
  /\ submits' = Without(submits, i)
  /\ UNCHANGED messages

\* a plausible slip: the reply is appended to the log as it was when the question was
\* submitted, before the question itself was appended
SucceededOnStaleLog(i, data) ==
  /\ messages' = Append(SubSeq(messages, 1, Len(messages) - 1),
                        createMessage("assistant", data.answer,
                                      [sources |-> data.results, followUps |-> data.followUps]))
  /\ isLoading' = FALSE
  /\ input' = <<>>
  /\ submits' = Without(submits, i)
  /\ UNCHANGED error

\* the end of the try block and the finally block of handleSubmit number i
Succeeded(i, data) ==
  /\ messages' = Append(messages,
                        createMessage("assistant", data.answer,
                                      [sources |-> data.results, followUps |-> data.followUps]))
  /\ isLoading' = FALSE
  /\ input' = <<>>
  /\ submits' = Without(submits, i)
  /\ UNCHANGED error

\* fetch settles for handleSubmit number i: it rejects, or resolves with the response
\* of a gateway or of the route handler
FetchSettles(i, outcome) ==
  /\ submits[i].stage = "fetch"
  /\ CASE outcome = "rejected" -> event' = "fetchRejected" /\ Failed(i, NetworkError)
       [] outcome = "gateway" -> event' = "responseNotOk" /\ Failed(i, NotOkError)
       [] outcome = "handler" ->
            LET response == POST(submits[i].request.body, now).res
            IN IF ~IsOk(response)
               THEN event' = "responseNotOk" /\ Failed(i, NotOkError)
               ELSE /\ event' = "responseOk"
                    /\ submits' = [submits EXCEPT ![i] = [stage |-> "json",
                                                           request |-> submits[i].request,
                                                           response |-> response]]
                    /\ UNCHANGED <<input, messages, isLoading, error>>
  /\ UNCHANGED serverVars

\* response.json() settles for handleSubmit number i: it rejects or resolves
BodySettles(i, outcome) ==
  /\ submits[i].stage = "json"
  /\ CASE outcome = "rejected" -> event' = "bodyRejected" /\ Failed(i, BodyError)
       [] outcome = "parsed" -> event' = "bodyParsed" /\ Succeeded(i, submits[i].response.body)
  /\ UNCHANGED serverVars

FetchSettlesSome ==
  \E i \in 1..Len(submits), outcome \in {"rejected", "gateway", "handler"} : FetchSettles(i, outcome)

BodySettlesSome ==
  \E i \in 1..Len(submits), outcome \in {"rejected", "parsed"} : BodySettles(i, outcome)

PageNext ==
  \/ \E text \in TypedTexts : TypeInput(text)
  \/ \E suggestion \in Suggestions : handleSuggestionClick(suggestion)
  \/ handleSubmit
  \/ FetchSettlesSome
  \/ BodySettlesSome

PageSpec == Init /\ [][PageNext]_vars

\* every request of the page settles
PageFairSpec == PageSpec /\ WF_vars(FetchSettlesSome) /\ WF_vars(BodySettlesSome)

(***************************************************************************)
(* Vocabulary of the properties.                                           *)
(***************************************************************************)
Done(h) == pc[h] = "done"

\* the body parsed and carries a string question with a non-whitespace character
HasValidQuestion(body) ==
  /\ body.json = "object"
  /\ body.question.type = "string"
  /\ \E i \in 1..Len(body.question.text) : ~IsSpace(body.question.text[i])

\* the body parsed to a value that has no question member (or a null one)
HasNoQuestion(body) ==
  \/ body.json \in {"null", "number", "boolean", "string", "array"}
  \/ body.json = "object" /\ body.question.type \in {"absent", "null"}

\* the body carries a string question with nothing but whitespace in it
HasBlankQuestion(body) ==
  /\ body.json = "object"
  /\ body.question.type = "string"
  /\ \A i \in 1..Len(body.question.text) : IsSpace(body.question.text[i])

IsErrorResponse(r) ==
  r.status = 400 /\ DOMAIN r.body = {"error"} /\ r.body.error \in STRING

(***************************************************************************)
(* C1: every request whose body is not parseable JSON, or whose parsed     *)
(* body has no question or a question that is empty after trimming, is    *)
(* answered 400 with an error string (and so never 200).                   *)
(***************************************************************************)
C1_InvalidInputIs400 ==
  \A h \in Handlers :
    Done(h) /\ (JsonRejects(req[h]) \/ HasNoQuestion(req[h]) \/ HasBlankQuestion(req[h]))
      => IsErrorResponse(res[h])

(***************************************************************************)
(* C2: the core functions are invoked only for a request that passed       *)
(* validation, always with a non-empty question without leading or         *)
(* trailing whitespace, retrieveLegalKnowledge always with limit 5; a      *)
(* request answered 400 invoked neither.                                   *)
(***************************************************************************)
C2_CoreCalledOnlyWhenValid ==
  \A h \in Handlers :
    /\ \A i \in 1..Len(calls[h]) :
         LET c == calls[h][i]
         IN /\ HasValidQuestion(req[h])
            /\ c.question # <<>>
            /\ ~IsSpace(c.question[1])
            /\ ~IsSpace(c.question[Len(c.question)])
            /\ c.fn = "retrieveLegalKnowledge" => c.limit = 5
    /\ res[h].status = 400 => calls[h] = <<>>

\* a served request whose question had whitespace on both sides reached the core
C2_Witness ==
  \E h \in Handlers :
    /\ Done(h)
    /\ Len(calls[h]) = 2
    /\ IsSpace(req[h].question.text[1])
    /\ IsSpace(req[h].question.text[Len(req[h].question.text)])

\* the fields of a result in the response
ResultFields ==
  {"id", "title", "summary", "excerpt", "citations", "sources", "score",
   "highlights", "region", "era", "type"}

(***************************************************************************)
(* C3: a request whose question is non-empty after trimming is answered    *)
(* 200; answer and followUps are buildAnswer's for the trimmed question    *)
(* and results = retrieveLegalKnowledge(question, 5); the response's       *)
(* results have the length and order of that sequence, each with the       *)
(* eleven fields unchanged; and the body carries a timestamp.              *)
(***************************************************************************)
C3_SuccessBodyIsCoreOutput ==
  \A h \in Handlers :
    Done(h) /\ HasValidQuestion(req[h]) =>
      LET question == Trim(req[h].question.text)
          results == retrieveLegalKnowledge(question, 5)
          built == buildAnswer(question, results)
          body == res[h].body
      IN /\ res[h].status = 200
         /\ DOMAIN body = {"answer", "results", "followUps", "timestamp"}
         /\ body.answer = built.answer
         /\ body.followUps = built.followUps
         /\ Len(body.results) = Len(results)
         /\ \A i \in 1..Len(results) :
              /\ DOMAIN body.results[i] = ResultFields
              /\ \A f \in ResultFields : body.results[i][f] = results[i][f]
         /\ body.timestamp \in 0..now

\* a served request with several results and follow-ups in its response
C3_Witness ==
  \E h \in Handlers :
    /\ Done(h)
    /\ HasValidQuestion(req[h])
    /\ res[h].status = 200
    /\ Len(res[h].body.results) >= 2
    /\ res[h].body.followUps # <<>>
    /\ res[h].body.results[1].score > res[h].body.results[2].score

\* the entries of the knowledge base that score above 0 for a question
Matching(question) ==
  {i \in 1..Len(kb) : score(normalize(question), kb[i]) > 0}

Served(h) == Done(h) /\ res[h].status = 200

(***************************************************************************)
(* C4: a valid question that no entry scores above 0 for is answered 200   *)
(* (never 400) with an empty results sequence and the fixed fallback       *)
(* answer.                                                                 *)
(***************************************************************************)
C4_NoMatchIsNotAnError ==
  \A h \in Handlers :
    Done(h) /\ HasValidQuestion(req[h]) /\ Matching(Trim(req[h].question.text)) = {} =>
      /\ res[h].status = 200
      /\ res[h].body.results = <<>>
      /\ res[h].body.answer = FallbackAnswer

\* a served request whose question matches no entry
C4_Witness ==
  \E h \in Handlers :
    /\ Done(h)
    /\ HasValidQuestion(req[h])
    /\ Matching(Trim(req[h].question.text)) = {}

(***************************************************************************)
(* C5: retrieveLegalKnowledge(q, limit) returns at most limit results,     *)
(* none with a score <= 0, and exactly limit results when at least limit   *)
(* entries score above 0; so every 200 response carries at most 5 results, *)
(* all with score > 0.                                                     *)
(***************************************************************************)
C5_AtMostLimitAllPositive ==
  \A h \in Handlers :
    /\ Served(h) =>
         /\ Len(res[h].body.results) <= 5
         /\ \A i \in 1..Len(res[h].body.results) : res[h].body.results[i].score > 0
    /\ pc[h] = "awaitJson" /\ HasValidQuestion(req[h]) =>
         \A limit \in 0..MaxLimit :
           LET question == Trim(req[h].question.text)
               results == retrieveLegalKnowledge(question, limit)
           IN /\ Len(results) <= limit
              /\ \A i \in 1..Len(results) : results[i].score > 0
              /\ Cardinality(Matching(question)) >= limit => Len(results) = limit

\* a served request for which more than 5 entries score above 0, cut to 5 results
C5_Witness ==
  \E h \in Handlers :
    /\ Served(h)
    /\ Cardinality(Matching(Trim(req[h].question.text))) > 5
    /\ Len(res[h].body.results) = 5

\* the position of the entry with this id in the knowledge base
KbPosition(id) == CHOOSE i \in 1..Len(kb) : kb[i].entry.id = id

(***************************************************************************)
(* C6: the results of every response are in descending order of score,     *)
(* equal scores in knowledge-base order.                                   *)
(***************************************************************************)
C6_ResultsSortedByScore ==
  \A h \in Handlers :
    Served(h) =>
      LET r == res[h].body.results
      IN \A i \in 1..(Len(r) - 1) :
           /\ r[i].score >= r[i + 1].score
           /\ r[i].score = r[i + 1].score => KbPosition(r[i].id) < KbPosition(r[i + 1].id)

\* a response in which two adjacent results tie and two others do not
C6_Witness ==
  \E h \in Handlers :
    /\ Served(h)
    /\ LET r == res[h].body.results
       IN /\ \E i \in 1..(Len(r) - 1) : r[i].score = r[i + 1].score
          /\ \E i \in 1..(Len(r) - 1) : r[i].score > r[i + 1].score

(***************************************************************************)
(* C7: no two results of one response share an id.                         *)
(***************************************************************************)
C7_ResultIdsUnique ==
  \A h \in Handlers :
    Served(h) =>
      LET r == res[h].body.results
      IN \A i, j \in 1..Len(r) : i # j => r[i].id # r[j].id

\* a response with several results
C7_Witness ==
  \E h \in Handlers : Served(h) /\ Len(res[h].body.results) >= 2

IsolatedOutcome(h) ==
  \E t \in 0..now :
    /\ res[h] = POST(req[h], t).res
    /\ calls[h] = POST(req[h], t).calls

\* every outcome is the isolated one and the knowledge base is as loaded
C9_Isolated ==
  /\ kb = LoadKnowledgeBase
  /\ \A h \in Handlers :
       /\ Done(h) => IsolatedOutcome(h)
       /\ ~Done(h) => res[h] = NoResponse /\ calls[h] = <<>>

\* a step leaves alone every request whose handler does not move
C9_OwnSlotOnly ==
  \A h \in Handlers :
    pc'[h] = pc[h] => req'[h] = req[h] /\ res'[h] = res[h] /\ calls'[h] = calls[h]

(***************************************************************************)
(* C9: under any interleaving, each response is the one its own request    *)
(* yields when handled alone; a step of one request changes nothing of     *)
(* another request; and the knowledge base never changes.                  *)
(***************************************************************************)
C9_RequestIsolation == []C9_Isolated /\ [][C9_OwnSlotOnly]_vars

\* a request served while another one, with a different question, is suspended
C9_Witness ==
  \E h, g \in Handlers :
    /\ h # g
    /\ Served(h)
    /\ pc[g] = "awaitJson"
    /\ HasValidQuestion(req[g])
    /\ Trim(req[g].question.text) # Trim(req[h].question.text)

(***************************************************************************)
(* C10: every request whose body parses as JSON completes with the 400 or  *)
(* the 200 response, never with an uncaught exception.                     *)
(***************************************************************************)
C10_ParsedBodyNeverThrows ==
  \A h \in Handlers :
    Done(h) /\ ~JsonRejects(req[h]) => res[h].status \in {200, 400}

(***************************************************************************)
(* Vocabulary of the chat page's properties.                               *)
(***************************************************************************)
\* the question a suspended handleSubmit sent
SentQuestion(i) == submits[i].request.body.question.text

\* this step is a submit event that was accepted: it sent a request
AcceptedSubmit == event' = "submit" /\ Len(submits') = Len(submits) + 1

\* this step ends a handleSubmit, in failure or in success
FailureEvents == {"fetchRejected", "responseNotOk", "bodyRejected"}
SettledEvents == FailureEvents \cup {"bodyParsed"}

LastMessage == messages[Len(messages)]

\* every request in flight is a POST to /api/query with a trimmed non-empty string
\* question, the content of the user message that ends the log, and the route
\* handler does not reject it
C11_RequestsWellFormed ==
  \A i \in 1..Len(submits) :
    LET r == submits[i].request
    IN /\ r.method = "POST" /\ r.url = "/api/query"
       /\ r.body.json = "object" /\ r.body.question.type = "string"
       /\ SentQuestion(i) # <<>>
       /\ ~IsSpace(SentQuestion(i)[1])
       /\ ~IsSpace(SentQuestion(i)[Len(SentQuestion(i))])
       /\ LastMessage.role = "user" /\ LastMessage.content = SentQuestion(i)
       /\ POST(r.body, now).res # BadRequest("Question is required")
       /\ POST(r.body, now).res.status = 200

\* an accepted submit sends the trimmed input and appends it as a user message; a
\* submit of an empty or blank input sends nothing and appends nothing
C11_SubmitStep ==
  /\ AcceptedSubmit =>
       /\ SentQuestion(Len(submits))' = Trim(input)
       /\ messages' = Append(messages, [role |-> "user", content |-> Trim(input)])
  /\ event' = "submit" /\ (\A k \in 1..Len(input) : IsSpace(input[k])) =>
       UNCHANGED <<messages, submits>>

(***************************************************************************)
(* C11: every request the page sends is a POST to /api/query with the      *)
(* body {question: q}, q the trimmed input, non-empty and equal to the     *)
(* content of the user message the same submit appends; a submit of an     *)
(* empty or blank input sends no request and appends no message; so no     *)
(* request of the page is rejected with 'Question is required'.            *)
(***************************************************************************)
C11_PageSendsValidQuestions == []C11_RequestsWellFormed /\ [][C11_SubmitStep]_vars

\* a question typed with blanks around it has been sent
C11_Witness ==
  /\ event = "submit"
  /\ Len(submits) = 1
  /\ input # Trim(input)
  /\ SentQuestion(1) = Trim(input)

\* at most one handleSubmit is suspended, and exactly while isLoading is true
C12_OneOutstanding ==
  /\ Len(submits) <= 1
  /\ isLoading <=> submits # <<>>

\* a submit event while isLoading is true changes nothing of the page but the event
C12_SubmitWhileLoading ==
  event' = "submit" /\ isLoading => UNCHANGED <<messages, submits, isLoading, error, input>>

(***************************************************************************)
(* C12: at most one query request of the page is outstanding at any time:  *)
(* a submit event while isLoading is true appends no message, sends no     *)
(* request and changes neither isLoading nor error.                        *)
(***************************************************************************)
C12_SingleOutstandingRequest == []C12_OneOutstanding /\ [][C12_SubmitWhileLoading]_vars

\* a submit of another non-empty question was ignored while a request was in flight
C12_Witness ==
  /\ event = "submit"
  /\ isLoading
  /\ Len(submits) = 1
  /\ Trim(input) # <<>>
  /\ Trim(input) # SentQuestion(1)

\* the reply the core gives to a question
AnswerTo(question) == buildAnswer(question, retrieveLegalKnowledge(question, QueryLimit)).answer

\* the log starts with the welcome message and every later assistant message follows a
\* user message; a request in flight carries the question and nothing of the log
C13_WellPaired ==
  /\ messages[1] = WelcomeMessage
  /\ \A k \in 2..Len(messages) :
       messages[k].role = "assistant" => messages[k - 1].role = "user"
  /\ \A i \in 1..Len(submits) : DOMAIN submits[i].request.body = {"json", "question"}

\* the assistant message a parsed response appends answers the user message before it
C13_AnswersPrevious ==
  event = "bodyParsed" =>
    /\ Len(messages) >= 3
    /\ LastMessage.role = "assistant"
    /\ messages[Len(messages) - 1].role = "user"
    /\ LastMessage.content = AnswerTo(messages[Len(messages) - 1].content)

\* no step changes, reorders or removes a message of the log
C13_AppendOnly ==
  /\ Len(messages') >= Len(messages)
  /\ \A k \in 1..Len(messages) :
       /\ messages'[k].role = messages[k].role
       /\ messages'[k] = messages[k]

(***************************************************************************)
(* C13: the message log is append-only and well-paired: it always starts   *)
(* with the welcome assistant message, no step changes, reorders or        *)
(* removes a message, and every other assistant message comes right after  *)
(* the user message whose question it answers.                             *)
(***************************************************************************)
C13_LogAppendOnlyWellPaired ==
  [](C13_WellPaired /\ C13_AnswersPrevious) /\ [][C13_AppendOnly]_vars

\* two questions were asked and answered in turn
C13_Witness ==
  /\ event = "bodyParsed"
  /\ Len(messages) = 5
  /\ messages[2].role = "user" /\ messages[3].role = "assistant"
  /\ messages[4].role = "user" /\ messages[5].role = "assistant"
  /\ messages[2].content # messages[4].content
  /\ messages[3].content # messages[5].content

\* a request that fails sets error and appends nothing after the user's message
C14_FailureStep ==
  event' \in FailureEvents =>
    /\ error' # Null
    /\ error'.message # ""
    /\ messages' = messages
    /\ LastMessage.role = "user"

\* a request that succeeds appends one assistant message made of the response's
\* answer, results and followUps, and error stays null
C14_SuccessStep ==
  event' = "bodyParsed" =>
    \E i \in 1..Len(submits) :
      /\ submits[i].stage = "json"
      /\ messages' = Append(messages, [role |-> "assistant",
                                       content |-> submits[i].response.body.answer,
                                       sources |-> submits[i].response.body.results,
                                       followUps |-> submits[i].response.body.followUps])
      /\ error = Null
      /\ error' = Null

\* an accepted submit resets error, so error is null while a request is in flight
C14_SubmitResetsError == AcceptedSubmit => error' = Null

(***************************************************************************)
(* C14: a failed request (network error, non-OK status, unreadable body)   *)
(* sets error to a non-null message and appends no assistant message,      *)
(* leaving the user's message in the log; a successful request appends     *)
(* exactly one assistant message with the response's answer, results and   *)
(* followUps and error stays null; an accepted submit resets error.        *)
(***************************************************************************)
C14_OutcomeHandling ==
  /\ [](isLoading => error = Null)
  /\ [][C14_FailureStep /\ C14_SuccessStep /\ C14_SubmitResetsError]_vars

\* a request failed after an earlier question had been answered
C14_Witness ==
  /\ event \in FailureEvents
  /\ error # Null
  /\ Len(messages) = 4
  /\ messages[3].role = "assistant"
  /\ LastMessage.role = "user"

\* an accepted submit sets isLoading
C15_SubmitStep == AcceptedSubmit => ~isLoading /\ isLoading'

\* a request that settles, in either way, clears isLoading and the input whatever the
\* input was at that moment
C15_SettleStep ==
  event' \in SettledEvents => isLoading /\ ~isLoading' /\ input' = <<>>

(***************************************************************************)
(* C15: every accepted submit sets isLoading to true; when its request     *)
(* settles, with success or failure, isLoading returns to false and the    *)
(* input becomes empty, whatever the input was changed to in the meantime; *)
(* if every request settles, isLoading is eventually false again.          *)
(***************************************************************************)
C15_LoadingAlwaysEnds ==
  /\ [][C15_SubmitStep /\ C15_SettleStep]_vars
  /\ isLoading ~> ~isLoading

\* a request has settled and left the page idle with an empty input
C15_Witness ==
  /\ event \in SettledEvents
  /\ ~isLoading
  /\ input = <<>>
  /\ submits = <<>>
  /\ Len(messages) >= 2

\* a click on a suggestion writes the clicked string to the input and nothing else
C16_ClickStep ==
  event' = "click" =>
    /\ input' \in Suggestions
    /\ UNCHANGED <<messages, isLoading, error, submits>>

\* a request is sent only by a submit, and then with the input as its question
C16_SentOnlyBySubmit ==
  Len(submits') > Len(submits) => event' = "submit" /\ AcceptedSubmit

(***************************************************************************)
(* C16: a click on a follow-up suggestion or a quick prompt only replaces  *)
(* the input with the clicked string; it sends no request, appends no      *)
(* message and leaves messages, isLoading and error unchanged, also while  *)
(* a request is in flight; a question is sent only by a later submit.      *)
(***************************************************************************)
C16_ClickOnlyFillsInput == [][C16_ClickStep /\ C16_SentOnlyBySubmit]_vars

\* a follow-up of an earlier answer was clicked while a request was in flight
C16_Witness ==
  /\ event = "click"
  /\ isLoading
  /\ Len(submits) = 1
  /\ input \in FollowUpsShown
  /\ input # SentQuestion(1)
  /\ LastMessage.role = "user"

====
